---- MODULE Spec2Model ----
(***************************************************************************)
(* Electrical calculator (script.js): the derivation engine calculateAll,  *)
(* the page's handlers and the history log with its persisted copy; and    *)
(* its service worker (service-worker.js): install, activate, the cache    *)
(* purges and the fetch handler.                                           *)
(*                                                                         *)
(* JavaScript numbers are modelled as exact rationals [k, n, d] in lowest  *)
(* terms; null and NaN are values of their own kind.  IEEE-754 rounding,   *)
(* overflow and underflow are outside the model.                           *)
(***************************************************************************)
EXTENDS Integers, Sequences, FiniteSets, TLC

\* ------------------------------------------------------------------ bounds
\* Largest integer of the grid the engine's Readings are drawn from.
MaxVal == 2
\* saveCalculation calls allowed in one behaviour.
MaxSaves == 2
\* Input events allowed in one behaviour.
MaxEdits == 1
\* Largest value of the wall clock read by new Date().
MaxClock == 1
\* Input events allowed in one behaviour under the debounce clock.
MaxBurst == 2
\* Steps of 100 ms the debounce clock may take.
MaxTicks == 4

\* ------------------------------------------------------- JavaScript numbers
RECURSIVE GCD(_, _)
GCD(a, b) == IF b = 0 THEN a ELSE GCD(b, a % b)

Abs(x) == IF x < 0 THEN -x ELSE x

\* The number n/d (d # 0), in lowest terms with a positive denominator.
Num(n, d) ==
    LET g == GCD(Abs(n), Abs(d))
        s == IF d < 0 THEN -1 ELSE 1
    IN  [k |-> "num", n |-> (s * n) \div g, d |-> (s * d) \div g]

Null == [k |-> "null", n |-> 0, d |-> 0]
NaN == [k |-> "NaN", n |-> 0, d |-> 0]
Zero == Num(0, 1)

\* x > 0 as JavaScript evaluates it: null converts to 0, NaN compares false.
Gt0(x) == x.k = "num" /\ x.n > 0

\* ToBoolean of a number or null: null, NaN and 0 are falsy.
Truthy(x) == x.k = "num" /\ x.n # 0

\* a || b
OrElse(a, b) == IF Truthy(a) THEN a ELSE b

\* a * b and a / b on numbers (b # 0 wherever the code divides).
Mul(a, b) == Num(a.n * b.n, a.d * b.d)
Div(a, b) == Num(a.n * b.d, a.d * b.n)

Fields == {"voltage", "current", "power", "time", "tariff"}

\* ------------------------------------------------------- derivation engine
\* script.js:286-293
calcPower_PowerFieldFirst(values) ==
    IF Gt0(values.power) THEN values.power
    ELSE IF Gt0(values.voltage) /\ Gt0(values.current)
         THEN Mul(values.voltage, values.current)
         ELSE Null

calcPower(values) ==
    IF Gt0(values.voltage) /\ Gt0(values.current)
    THEN Mul(values.voltage, values.current)
    ELSE IF Gt0(values.power) THEN values.power ELSE Null

\* script.js:295-302
calcCurrent_KeepField(values) ==
    IF Gt0(values.current) THEN values.current
    ELSE IF Gt0(values.power) /\ Gt0(values.voltage)
         THEN Div(values.power, values.voltage)
         ELSE Null

calcCurrent(values) ==
    IF Gt0(values.power) /\ Gt0(values.voltage)
    THEN Div(values.power, values.voltage)
    ELSE IF Gt0(values.current) THEN values.current ELSE Null

\* script.js:304-311
calcVoltage_DivByVoltage(values) ==
    IF Gt0(values.power) /\ Gt0(values.current) /\ Gt0(values.voltage)
    THEN Div(values.power, values.voltage)
    ELSE IF Gt0(values.power) /\ Gt0(values.current)
         THEN Div(values.power, values.current)
         ELSE IF Gt0(values.voltage) THEN values.voltage ELSE Null

calcVoltage(values) ==
    IF Gt0(values.power) /\ Gt0(values.current)
    THEN Div(values.power, values.current)
    ELSE IF Gt0(values.voltage) THEN values.voltage ELSE Null

\* script.js:313-319; calculatedPower is results.calculatedPower
calcEnergy_RawPowerFirst(values, calculatedPower) ==
    LET effectivePower == OrElse(values.power, calculatedPower)
    IN  IF Gt0(effectivePower) /\ Gt0(values.time)
        THEN Div(Mul(effectivePower, values.time), Num(1000, 1))
        ELSE Null

calcEnergy(values, calculatedPower) ==
    LET effectivePower == OrElse(calculatedPower, values.power)
    IN  IF Gt0(effectivePower) /\ Gt0(values.time)
        THEN Div(Mul(effectivePower, values.time), Num(1000, 1))
        ELSE Null

\* script.js:321-326; energy is results.energy
calcCost_IgnoreTariffSign(values, energy) ==
    IF Truthy(energy) /\ Truthy(values.tariff)
    THEN Mul(energy, values.tariff)
    ELSE Null

calcCost(values, energy) ==
    IF Truthy(energy) /\ Gt0(values.tariff)
    THEN Mul(energy, values.tariff)
    ELSE Null

\* script.js:282-329
calculateAll(values) ==
    LET calculatedPower == calcPower(values)
        energy == calcEnergy(values, calculatedPower)
    IN  [calculatedPower |-> calculatedPower,
         calculatedCurrent |-> calcCurrent(values),
         calculatedVoltage |-> calcVoltage(values),
         energy |-> energy,
         cost |-> calcCost(values, energy)]

\* script.js:276-280
hasValidInputs_AtLeastOne(values) ==
    Cardinality({f \in Fields : Gt0(values[f])}) >= 1

hasValidInputs_AtLeastThree(values) ==
    Cardinality({f \in Fields : Gt0(values[f])}) >= 3

hasValidInputs(values) ==
    Cardinality({f \in Fields : Gt0(values[f])}) >= 2

\* ------------------------------------------------------------ text values
\* A string is a sequence of one-character strings.
Digits == <<"0", "1", "2", "3", "4", "5", "6", "7", "8", "9">>
DigitChars == {Digits[i] : i \in 1..10}
DigitVal(c) == CHOOSE i \in 0..9 : Digits[i + 1] = c

RECURSIVE Pow10(_)
Pow10(k) == IF k = 0 THEN 1 ELSE 10 * Pow10(k - 1)

\* Number of leading decimal digits of s.
RECURSIVE LeadDigits(_)
LeadDigits(s) ==
    IF s # <<>> /\ Head(s) \in DigitChars THEN 1 + LeadDigits(Tail(s)) ELSE 0

\* Value of a sequence of decimal digits.
RECURSIVE DigitsValue(_)
DigitsValue(s) ==
    IF s = <<>> THEN 0
    ELSE 10 * DigitsValue(SubSeq(s, 1, Len(s) - 1)) + DigitVal(s[Len(s)])

\* Decimal digits of n >= 0.
RECURSIVE ToDigits(_)
ToDigits(n) ==
    IF n < 10 THEN <<Digits[n + 1]>>
    ELSE ToDigits(n \div 10) \o <<Digits[(n % 10) + 1]>>

\* parseFloat: the longest prefix [sign] digits [. digits] of the string,
\* NaN when that prefix holds no digit.  Exponents are not typed here.
\* script.js:268 (parseFloat of an input element's value)
parseFloat(s) ==
    LET signed == s # <<>> /\ Head(s) \in {"-", "+"}
        neg == s # <<>> /\ Head(s) = "-"
        body == IF signed THEN Tail(s) ELSE s
        il == LeadDigits(body)
        rest == SubSeq(body, il + 1, Len(body))
        fl == IF rest # <<>> /\ Head(rest) = "." THEN LeadDigits(Tail(rest)) ELSE 0
        iv == DigitsValue(SubSeq(body, 1, il))
        fv == DigitsValue(SubSeq(rest, 2, fl + 1))
        mag == iv * Pow10(fl) + fv
    IN  IF il + fl = 0 THEN NaN
        ELSE Num(IF neg THEN -mag ELSE mag, Pow10(fl))

\* script.js:266-274: parseFloat(...) || 0 for each of the five fields
getInputValues(flds) ==
    [voltage |-> OrElse(parseFloat(flds.voltage), Zero),
     current |-> OrElse(parseFloat(flds.current), Zero),
     power |-> OrElse(parseFloat(flds.power), Zero),
     time |-> OrElse(parseFloat(flds.time), Zero),
     tariff |-> OrElse(parseFloat(flds.tariff), Zero)]

\* Nearest integer to n/d for n >= 0, d > 0; a tie goes to the larger one.
RoundHalfUp(n, d) == (2 * n + d) \div (2 * d)

\* Number.prototype.toFixed(2) of a number below 1e21.
toFixed2(x) ==
    LET h == RoundHalfUp(Abs(x.n) * 100, x.d)
        frac == h % 100
    IN  (IF x.n < 0 THEN <<"-">> ELSE <<>>)
        \o ToDigits(h \div 100) \o <<".">>
        \o <<Digits[(frac \div 10) + 1], Digits[(frac % 10) + 1]>>

\* The decimal exponent e of n/d > 0, searched downwards and upwards from 0.
RECURSIVE ExpDown(_, _, _)
ExpDown(n, d, e) == IF n >= d THEN e ELSE ExpDown(n * 10, d, e - 1)
RECURSIVE ExpUp(_, _, _)
ExpUp(n, d, e) == IF n < 10 * d THEN e ELSE ExpUp(n, d * 10, e + 1)
Exponent10(n, d) == IF n >= d THEN ExpUp(n, d, 0) ELSE ExpDown(n, d, 0)

\* Number.prototype.toExponential(2).
toExponential2(x) ==
    LET n == Abs(x.n)
        e0 == IF n = 0 THEN 0 ELSE Exponent10(n, x.d)
        \* three significant digits: n/d / 10^(e0-2)
        m0 == IF e0 >= 2 THEN RoundHalfUp(n, x.d * Pow10(e0 - 2))
              ELSE RoundHalfUp(n * Pow10(2 - e0), x.d)
        m == IF m0 = 1000 THEN 100 ELSE m0
        e == IF m0 = 1000 THEN e0 + 1 ELSE e0
    IN  (IF x.n < 0 THEN <<"-">> ELSE <<>>)
        \o <<Digits[(m \div 100) + 1], ".", Digits[((m \div 10) % 10) + 1],
             Digits[(m % 10) + 1], "e", IF e < 0 THEN "-" ELSE "+">>
        \o ToDigits(Abs(e))

Dashes == <<"-", "-">>

\* num >= c for a number num and an integer c
GeInt(x, c) == x.n >= c * x.d

\* script.js:386-398
formatNumber(num) ==
    IF num.k # "num" THEN Dashes
    ELSE IF GeInt(num, 1000000) THEN toFixed2(Div(num, Num(1000000, 1))) \o <<"M">>
    ELSE IF GeInt(num, 1000) THEN toFixed2(Div(num, Num(1000, 1))) \o <<"k">>
    ELSE IF num.n * 100 < num.d THEN toExponential2(num)
    ELSE toFixed2(num)

\* --------------------------------------------------------------- JSON text
\* JSON.stringify writes a finite number as a numeral that reads back as the
\* same number, and writes null for null and for NaN; an object becomes the
\* list of its members in insertion order.
JSONnumber(x) ==
    IF x.k = "num" THEN <<"number", x.n, x.d>> ELSE <<"null", 0, 0>>

JSONstringifyEntry(c) ==
    <<c.timestamp,
      <<JSONnumber(c.inputs.voltage), JSONnumber(c.inputs.current),
        JSONnumber(c.inputs.power), JSONnumber(c.inputs.time),
        JSONnumber(c.inputs.tariff)>>,
      <<JSONnumber(c.results.calculatedPower), JSONnumber(c.results.calculatedCurrent),
        JSONnumber(c.results.calculatedVoltage), JSONnumber(c.results.energy),
        JSONnumber(c.results.cost)>>>>

\* script.js:537 (JSON.stringify(recentCalculations))
JSONstringify_BeforeUnshift(log) ==
    [i \in 1..(Len(log) - 1) |-> JSONstringifyEntry(log[i + 1])]

JSONstringify(log) == [i \in 1..Len(log) |-> JSONstringifyEntry(log[i])]

JSONparseNumber(t) == IF t[1] = "number" THEN Num(t[2], t[3]) ELSE Null

JSONparseEntry(t) ==
    [timestamp |-> t[1],
     inputs |-> [voltage |-> JSONparseNumber(t[2][1]), current |-> JSONparseNumber(t[2][2]),
                 power |-> JSONparseNumber(t[2][3]), time |-> JSONparseNumber(t[2][4]),
                 tariff |-> JSONparseNumber(t[2][5])],
     results |-> [calculatedPower |-> JSONparseNumber(t[3][1]),
                  calculatedCurrent |-> JSONparseNumber(t[3][2]),
                  calculatedVoltage |-> JSONparseNumber(t[3][3]),
                  energy |-> JSONparseNumber(t[3][4]),
                  cost |-> JSONparseNumber(t[3][5])]]

\* script.js:72 (JSON.parse(saved))
JSONparse(text) == [i \in 1..Len(text) |-> JSONparseEntry(text[i])]

\* script.js:72: JSON.parse throws a SyntaxError on any other text
JSONwellFormed(text) == \A i \in 1..Len(text) : Len(text[i]) = 3

\* A stored text that is not JSON, as another script of the origin or the
\* user may have left it under the key.
Unparsable == <<<<>>>>

\* ------------------------------------------------------------------- state
VARIABLES
    values,              \* the Reading handed to one calculateAll invocation
    results,             \* the Derivation that invocation returned
    pc,                  \* "idle" before the invocation, "done" after it
    started,             \* DOMContentLoaded has run in this page load
    fields,              \* elements.<field>.value, the five input texts
    timeout,             \* per field: its debounce closure holds a pending timer
    originalUnit,        \* elements.<field>.dataset.originalUnit
    resultText,          \* textContent of the five result slots
    chartData,           \* energyChart.data.datasets[0].data
    currentTheme,        \* script.js:21
    recentCalculations,  \* script.js:22, newest first
    localStorage,        \* the keys 'theme' and 'recentCalculations'
    now,                 \* the wall clock new Date() reads
    saves,               \* saveCalculation calls so far
    edits,               \* input events so far
    uncaught,            \* an exception left a handler of this page load uncaught
    altFirst,            \* the markup puts the alternate unit button first
    storageFails,        \* which setItem calls throw: "none", "history" (the quota
                         \* is reached, the short theme value still fits), "all"
    clock,               \* milliseconds since the page was loaded
    due,                 \* per field: when its pending timer is due
    lastInputAt,         \* when the latest input event happened
    burstRuns,           \* timer runs of performCalculations in the current burst
    quietAtRun,          \* at the latest timer run: time since the latest input
    swState,             \* the service worker's lifecycle state
    cacheStorage,        \* CacheStorage: per cache name, the request URLs it holds
    reply,               \* what the latest fetch event was answered with
    stored,              \* the payload the dynamic cache holds under
                         \* /api/calculations (0: no payload there)
    caching,             \* payloads whose cacheCalculation awaits its cache.put
    sync,                \* the syncCalculations run: where it stands, its locals
    handed               \* CACHE_CALCULATION messages received so far

engineVars == <<values, results, pc>>
pageVars == <<started, fields, timeout, originalUnit, resultText,
              chartData, currentTheme, recentCalculations>>
envVars == <<localStorage, now, saves, edits>>
hostVars == <<altFirst, storageFails>>
debounceVars == <<clock, due, lastInputAt, burstRuns, quietAtRun>>
syncVars == <<stored, caching, sync, handed>>
workerVars == <<swState, cacheStorage, reply, syncVars>>
\* What no handler of the page touches unless the handler names it.
quietVars == <<engineVars, hostVars, debounceVars, workerVars>>
vars == <<engineVars, pageVars, envVars, uncaught, hostVars, debounceVars, workerVars>>

\* script.js:532-533
MaxRecent == 10

UnitFields == {"voltage", "current", "power", "time"}
BaseUnit == [voltage |-> "V", current |-> "A", power |-> "W", time |-> "h"]
AltUnit == [voltage |-> "kV", current |-> "mA", power |-> "kW", time |-> "min"]
\* script.js:167, 182, 197, 212
UnitFactor == [voltage |-> 1000, current |-> 1000, power |-> 1000, time |-> 60]

ResultSlots == {"powerResult", "currentResult", "voltageResult", "energyResult", "costResult"}

\* A storage key that was never written (getItem returns null), per key.
NoTheme == [present |-> FALSE, value |-> ""]
NoHistory == [present |-> FALSE, value |-> <<>>]
Item(v) == [present |-> TRUE, value |-> v]

EmptyText == <<>>
DefaultTariff == <<"8", ".", "5">>

\* script.js:378-384
clearResults == [s \in ResultSlots |-> Dashes]

\* script.js:331-376
displayResults(res) ==
    [powerResult |-> formatNumber(res.calculatedPower),
     currentResult |-> formatNumber(res.calculatedCurrent),
     voltageResult |-> formatNumber(res.calculatedVoltage),
     energyResult |-> formatNumber(res.energy),
     costResult |-> formatNumber(res.cost)]

\* script.js:452-458 (results.x || 0 for each slot)
updateChart(res) ==
    <<OrElse(res.calculatedPower, Zero), OrElse(res.calculatedCurrent, Zero),
      OrElse(res.calculatedVoltage, Zero), OrElse(res.energy, Zero),
      OrElse(res.cost, Zero)>>

ZeroChart == <<Zero, Zero, Zero, Zero, Zero>>

\* script.js:521-534: the log after unshift and the cut to ten entries
saveCalculation_DropNewest(log, inputs, res, timestamp) ==
    LET calculation == [timestamp |-> timestamp, inputs |-> inputs, results |-> res]
        unshifted == <<calculation>> \o log
    IN  IF Len(unshifted) > MaxRecent
        THEN SubSeq(unshifted, 2, MaxRecent + 1)
        ELSE unshifted

saveCalculation_NoCut(log, inputs, res, timestamp) ==
    <<[timestamp |-> timestamp, inputs |-> inputs, results |-> res]>> \o log

saveCalculation(log, inputs, res, timestamp) ==
    LET calculation == [timestamp |-> timestamp, inputs |-> inputs, results |-> res]
        unshifted == <<calculation>> \o log
    IN  IF Len(unshifted) > MaxRecent
        THEN SubSeq(unshifted, 1, MaxRecent)
        ELSE unshifted

\* ----------------------------------------------------------- page handlers
\* script.js:20-22 and the markup's initial form: the page before startup
Unloaded ==
    /\ started = FALSE
    /\ fields = [f \in Fields |-> EmptyText]
    /\ timeout = [f \in Fields |-> FALSE]
    /\ originalUnit = [f \in UnitFields |-> ""]
    /\ resultText = clearResults
    /\ chartData = ZeroChart
    /\ currentTheme = "light"
    /\ recentCalculations = <<>>

\* script.js:57-77, 401-447: the DOMContentLoaded handler
\* Neither setTheme's setItem (script.js:109) nor JSON.parse (script.js:72) is
\* inside a try: when one throws, the rest of the DOMContentLoaded handler
\* (script.js:58-61) is skipped and no listener is ever attached.
initializeApp ==
    /\ ~started
    /\ ~uncaught
    /\ LET savedTheme == IF localStorage.theme.present /\ localStorage.theme.value # ""
                         THEN localStorage.theme.value ELSE "light"
           saved == localStorage.recentCalculations
       IN  /\ currentTheme' = savedTheme
           /\ IF storageFails = "all"
              THEN /\ uncaught' = TRUE
                   /\ UNCHANGED <<started, localStorage, recentCalculations,
                                  fields, chartData>>
              ELSE /\ localStorage' = [localStorage EXCEPT !.theme = Item(savedTheme)]
                   /\ IF saved.present /\ ~JSONwellFormed(saved.value)
                      THEN /\ uncaught' = TRUE
                           /\ UNCHANGED <<started, recentCalculations, fields, chartData>>
                      ELSE /\ started' = TRUE
                           /\ recentCalculations' =
                                  IF saved.present THEN JSONparse(saved.value)
                                  ELSE recentCalculations
                           /\ fields' = [fields EXCEPT !.tariff = DefaultTariff]
                           /\ chartData' = ZeroChart
                           /\ UNCHANGED uncaught
    /\ UNCHANGED <<timeout, originalUnit, resultText, now, saves, edits>>
    /\ UNCHANGED quietVars

\* script.js:252-264 without the hasValidInputs test of script.js:255-258
performCalculations_NoGuard(flds) ==
    LET vals == getInputValues(flds)
        res == calculateAll(vals)
        log == saveCalculation(recentCalculations, vals, res, now)
    IN  /\ saves < MaxSaves
        /\ saves' = saves + 1
        /\ resultText' = displayResults(res)
        /\ chartData' = updateChart(res)
        /\ recentCalculations' = log
        /\ localStorage' = [localStorage EXCEPT
               !.recentCalculations = Item(JSONstringify(log))]
        /\ UNCHANGED uncaught

\* script.js:252-264, run on the input texts flds
\* saveCalculation's setItem (script.js:537) is not inside a try: when it
\* throws, the log in memory is already updated and the exception leaves
\* performCalculations.
performCalculations(flds) ==
    LET vals == getInputValues(flds)
    IN  IF ~hasValidInputs(vals)
        THEN /\ resultText' = clearResults
             /\ UNCHANGED <<chartData, recentCalculations, localStorage, saves, uncaught>>
        ELSE LET res == calculateAll(vals)
                 log == saveCalculation(recentCalculations, vals, res, now)
             IN  /\ saves < MaxSaves
                 /\ saves' = saves + 1
                 /\ resultText' = displayResults(res)
                 /\ chartData' = updateChart(res)
                 /\ recentCalculations' = log
                 /\ IF storageFails # "none"
                    THEN /\ uncaught' = TRUE
                         /\ UNCHANGED localStorage
                    ELSE /\ localStorage' = [localStorage EXCEPT
                                !.recentCalculations = Item(JSONstringify(log))]
                         /\ UNCHANGED uncaught

\* The texts a user types into a field.
TypedTexts == {<<"2">>, <<"-", "1">>}

\* script.js:81-85, 227-229, 588-595: an input event on field f
InputEvent(f, text) ==
    /\ started
    /\ edits < MaxEdits
    /\ edits' = edits + 1
    /\ fields' = [fields EXCEPT ![f] = text]
    /\ timeout' = [timeout EXCEPT ![f] = TRUE]
    /\ UNCHANGED <<started, originalUnit, resultText, chartData,
                   currentTheme, recentCalculations, localStorage, now, saves>>
    /\ UNCHANGED <<uncaught, quietVars>>

\* script.js:589-592: the debounce timer of field f fires
TimerFires(f) ==
    /\ started
    /\ timeout[f]
    /\ timeout' = [timeout EXCEPT ![f] = FALSE]
    /\ UNCHANGED <<started, fields, originalUnit, currentTheme, now, edits>>
    /\ UNCHANGED quietVars
    /\ performCalculations(fields)

\* script.js:673-678: Ctrl/Cmd+Enter, and window.ElectricalCalculator
KeyboardCalculate ==
    /\ started
    /\ UNCHANGED <<started, fields, timeout, originalUnit, currentTheme,
                   now, edits>>
    /\ UNCHANGED quietVars
    /\ performCalculations(fields)

\* The unit button that document.querySelector finds for a group: the first
\* one in document order, whichever button is active.  index.html is not
\* among the sources: altFirst is the order its markup gives the two buttons.
FirstUnitButton(f) == IF altFirst THEN AltUnit[f] ELSE BaseUnit[f]

\* script.js:122-219: a click on the button of unit u in the group of field f.
\* toggleUnitButtons only moves the class "active", which the script never
\* reads; it is not part of the state.  The listener calls convert*Units()
\* without an argument, so the step is the same whichever button of the group
\* was clicked: UnitClick(f, BaseUnit[f]) and UnitClick(f, AltUnit[f]) are one
\* action, and Next takes it once per group.
UnitClick(f, u) ==
    LET value == parseFloat(fields[f])
        unitText == FirstUnitButton(f)
        toAlt == unitText = AltUnit[f] /\ originalUnit[f] # AltUnit[f]
        toBase == unitText = BaseUnit[f] /\ originalUnit[f] = AltUnit[f]
        factor == Num(UnitFactor[f], 1)
        converted ==
            IF toAlt THEN [fields EXCEPT ![f] = toFixed2(Mul(value, factor))]
            ELSE IF toBase THEN [fields EXCEPT ![f] = toFixed2(Div(value, factor))]
            ELSE fields
    IN  /\ started
        /\ UNCHANGED <<started, timeout, currentTheme, now, edits>>
        /\ UNCHANGED quietVars
        /\ IF value.k = "NaN"
           THEN UNCHANGED <<fields, originalUnit, resultText, chartData,
                            recentCalculations, localStorage, saves, uncaught>>
           ELSE /\ fields' = converted
                /\ originalUnit' = IF toAlt THEN [originalUnit EXCEPT ![f] = AltUnit[f]]
                                   ELSE IF toBase
                                        THEN [originalUnit EXCEPT ![f] = BaseUnit[f]]
                                        ELSE originalUnit
                /\ performCalculations(converted)

\* script.js:598-626 without the clearResults() of script.js:610
resetAll_KeepsResults ==
    /\ started
    /\ fields' = [f \in Fields |-> IF f = "tariff" THEN DefaultTariff ELSE EmptyText]
    /\ originalUnit' = [f \in UnitFields |-> ""]
    /\ chartData' = ZeroChart
    /\ UNCHANGED <<started, timeout, resultText, currentTheme, recentCalculations,
                   localStorage, now, saves, edits>>
    /\ UNCHANGED <<uncaught, quietVars>>

\* script.js:598-643
resetAll ==
    /\ started
    /\ fields' = [f \in Fields |-> IF f = "tariff" THEN DefaultTariff ELSE EmptyText]
    /\ originalUnit' = [f \in UnitFields |-> ""]
    /\ resultText' = clearResults
    /\ chartData' = ZeroChart
    /\ UNCHANGED <<started, timeout, currentTheme, recentCalculations, localStorage,
                   now, saves, edits>>
    /\ UNCHANGED <<uncaught, quietVars>>

\* script.js:101-119 without the setItem of script.js:109
toggleTheme_NoPersist ==
    /\ started
    /\ currentTheme' = (IF currentTheme = "light" THEN "dark" ELSE "light")
    /\ UNCHANGED <<started, fields, timeout, originalUnit, resultText,
                   chartData, recentCalculations, localStorage, now, saves, edits>>
    /\ UNCHANGED <<uncaught, quietVars>>

\* script.js:101-119
toggleTheme ==
    LET newTheme == IF currentTheme = "light" THEN "dark" ELSE "light"
    IN  /\ started
        /\ currentTheme' = newTheme
        /\ IF storageFails = "all"
           THEN uncaught' = TRUE /\ UNCHANGED localStorage
           ELSE /\ localStorage' = [localStorage EXCEPT !.theme = Item(newTheme)]
                /\ UNCHANGED uncaught
        /\ UNCHANGED <<started, fields, timeout, originalUnit, resultText,
                       chartData, recentCalculations, now, saves, edits>>
        /\ UNCHANGED quietVars

\* script.js:489-518: an alert or a file download, nothing of the page changes
exportToCSV ==
    /\ started
    /\ UNCHANGED vars

\* script.js:479-487
downloadChartAsImage ==
    /\ started
    /\ UNCHANGED vars

\* The page is loaded again: the script's globals and the form start over,
\* pending timers die with the old page, local storage stays.
Reload ==
    /\ started \/ uncaught
    /\ started' = FALSE
    /\ uncaught' = FALSE
    /\ fields' = [f \in Fields |-> EmptyText]
    /\ timeout' = [f \in Fields |-> FALSE]
    /\ originalUnit' = [f \in UnitFields |-> ""]
    /\ resultText' = clearResults
    /\ chartData' = ZeroChart
    /\ currentTheme' = "light"
    /\ recentCalculations' = <<>>
    /\ UNCHANGED <<localStorage, now, saves, edits>>
    /\ UNCHANGED quietVars

\* Time passes between two events.
Tick ==
    /\ now < MaxClock
    /\ now' = now + 1
    /\ UNCHANGED <<pageVars, localStorage, saves, edits>>
    /\ UNCHANGED <<uncaught, quietVars>>

\* ---------------------------------------------------------- specifications
\* A Reading as getInputValues returns it, kept in the engine's variables.
IdleEngine ==
    /\ values = [f \in Fields |-> Zero]
    /\ results = [calculatedPower |-> Null, calculatedCurrent |-> Null,
                  calculatedVoltage |-> Null, energy |-> Null, cost |-> Null]
    /\ pc = "idle"

\* What recording k calculations in earlier sessions left in the log, newest
\* first at timestamps -1, -2, ..., -k.
PriorTexts(i) ==
    [f \in Fields |-> IF f = "tariff" THEN DefaultTariff
                      ELSE IF f = "voltage" THEN ToDigits(2 + (i % 2))
                      ELSE IF f = "current" /\ i % 3 = 0 THEN <<"5">>
                      ELSE EmptyText]

PriorLog(k) ==
    [i \in 1..k |-> [timestamp |-> -i,
                     inputs |-> getInputValues(PriorTexts(i)),
                     results |-> calculateAll(getInputValues(PriorTexts(i)))]]

\* How many entries the stored log holds at startup: one below the cap, or
\* at the cap.
StoredCounts == {MaxRecent - 1, MaxRecent}

\* Local storage as earlier sessions left it: nothing on a first visit,
\* otherwise the theme and, once a calculation was recorded, the log.
InitialStorage ==
    {[theme |-> NoTheme, recentCalculations |-> NoHistory]}
    \cup {[theme |-> Item(t), recentCalculations |-> NoHistory] : t \in {"light", "dark"}}
    \cup {[theme |-> Item(t), recentCalculations |-> Item(JSONstringify(PriorLog(k)))] :
            t \in {"light", "dark"}, k \in StoredCounts}

\* script.js:81-85: the wait every debounce closure is created with
DebounceWait == 300

\* No input event yet, no timer armed.
Untimed ==
    /\ clock = 0
    /\ due = [f \in Fields |-> 0]
    /\ lastInputAt = -DebounceWait
    /\ burstRuns = 0
    /\ quietAtRun = DebounceWait

\* No fetch event was answered yet.
NoReply == [href |-> "", consulted |-> <<>>, kind |-> "none"]

\* The page without a service worker: nothing registered, no cache.
\* No payload was handed over and no sync event was dispatched yet.
NoResponse == [defined |-> FALSE, body |-> 0]
SyncIdle == [pc |-> "idle", requests |-> {}, response |-> NoResponse,
             calculation |-> 0, runs |-> 0]
NoSync ==
    /\ stored = 0
    /\ caching = {}
    /\ sync = SyncIdle
    /\ handed = 0

NoWorker ==
    /\ swState = "parsed"
    /\ cacheStorage = [name \in {} |-> {}]
    /\ reply = NoReply
    /\ NoSync

\* The page as the README's markup order has it (V before kV, A before mA,
\* W before kW, h before min) on a host whose local storage works.
Init ==
    /\ IdleEngine
    /\ Unloaded
    /\ localStorage \in InitialStorage
    /\ now = 0
    /\ saves = 0
    /\ edits = 0
    /\ uncaught = FALSE
    /\ altFirst = FALSE
    /\ storageFails = "none"
    /\ Untimed
    /\ NoWorker

Next ==
    \/ initializeApp
    \/ \E f \in Fields, text \in TypedTexts : InputEvent(f, text)
    \/ \E f \in Fields : TimerFires(f)
    \/ KeyboardCalculate
    \/ \E f \in UnitFields : UnitClick(f, AltUnit[f])
    \/ resetAll
    \/ toggleTheme
    \/ exportToCSV
    \/ downloadChartAsImage
    \/ Reload
    \/ Tick

Spec == Init /\ [][Next]_vars

\* The page on any host: setItem may throw, for the history once the quota is
\* reached or for every key, and the history key may hold text that is not
\* JSON.
CorruptStorage ==
    {[theme |-> t, recentCalculations |-> Item(Unparsable)] :
        t \in {NoTheme, Item("light"), Item("dark")}}

InitStorage ==
    /\ IdleEngine
    /\ Unloaded
    /\ localStorage \in InitialStorage \cup CorruptStorage
    /\ now = 0
    /\ saves = 0
    /\ edits = 0
    /\ uncaught = FALSE
    /\ altFirst = FALSE
    /\ storageFails \in {"none", "history", "all"}
    /\ Untimed
    /\ NoWorker

SpecStorage == InitStorage /\ [][Next]_vars

\* The page under either order of the two unit buttons in the markup.
InitUnits ==
    /\ IdleEngine
    /\ Unloaded
    /\ localStorage \in InitialStorage
    /\ now = 0
    /\ saves = 0
    /\ edits = 0
    /\ uncaught = FALSE
    /\ altFirst \in BOOLEAN
    /\ storageFails = "none"
    /\ Untimed
    /\ NoWorker

SpecUnits == InitUnits /\ [][Next]_vars

\* The events that write an input field or a result slot: startup, input
\* edits, timer firings, keyboard recomputations, unit toggles, resets, and
\* a reload of the page.
NextDisplay ==
    \/ initializeApp
    \/ \E f \in Fields, text \in TypedTexts : InputEvent(f, text)
    \/ \E f \in Fields : TimerFires(f)
    \/ KeyboardCalculate
    \/ \E f \in UnitFields : UnitClick(f, AltUnit[f])
    \/ resetAll
    \/ Reload

SpecDisplay == InitUnits /\ [][NextDisplay]_vars

\* The input listeners under a clock, in steps of 100 ms.  A timer that is due
\* fires before time moves on and before the next input event is handled.
NoTimerDue == \A f \in Fields : timeout[f] => clock < due[f]

\* script.js:81-85, 588-595: an input event on field f at time clock.  The
\* closure of field f clears its own timer and arms it anew; the timers of
\* the four other closures are out of its reach.  A burst goes on while every
\* input event comes less than DebounceWait after the one before.
TimedInput(f, text) ==
    /\ started
    /\ edits < MaxBurst
    /\ NoTimerDue
    /\ edits' = edits + 1
    /\ fields' = [fields EXCEPT ![f] = text]
    /\ timeout' = [timeout EXCEPT ![f] = TRUE]
    /\ due' = [due EXCEPT ![f] = clock + DebounceWait]
    /\ lastInputAt' = clock
    /\ burstRuns' = IF clock - lastInputAt >= DebounceWait THEN 0 ELSE burstRuns
    /\ UNCHANGED <<started, originalUnit, resultText, chartData,
                   currentTheme, recentCalculations, localStorage, now, saves>>
    /\ UNCHANGED <<uncaught, clock, quietAtRun, engineVars, hostVars, workerVars>>

\* script.js:589-592: the timer of field f runs `later` once it is due
TimedFire(f) ==
    /\ started
    /\ timeout[f]
    /\ clock >= due[f]
    /\ timeout' = [timeout EXCEPT ![f] = FALSE]
    /\ performCalculations(fields)
    /\ burstRuns' = burstRuns + 1
    /\ quietAtRun' = clock - lastInputAt
    /\ UNCHANGED <<started, fields, originalUnit, currentTheme, now, edits>>
    /\ UNCHANGED <<clock, due, lastInputAt, engineVars, hostVars, workerVars>>

\* 100 ms pass.
Advance ==
    /\ clock < MaxTicks * 100
    /\ NoTimerDue
    /\ clock' = clock + 100
    /\ UNCHANGED <<pageVars, envVars, uncaught, due, lastInputAt, burstRuns,
                   quietAtRun, engineVars, hostVars, workerVars>>

NextDebounce ==
    \/ initializeApp
    \/ \E f \in Fields, text \in TypedTexts : TimedInput(f, text)
    \/ \E f \in Fields : TimedFire(f)
    \/ Advance

SpecDebounce == Init /\ [][NextDebounce]_vars

\* The derivation engine alone: one invocation of calculateAll on a Reading.
Halves == {Num(i, 2) : i \in -1..(2 * MaxVal)}

ExampleTexts ==
    {[voltage |-> <<"2", "3", "0">>, current |-> <<"2">>, power |-> EmptyText,
      time |-> EmptyText, tariff |-> EmptyText],
     [voltage |-> EmptyText, current |-> EmptyText, power |-> <<"1", "0", "0", "0">>,
      time |-> <<"5">>, tariff |-> EmptyText],
     [voltage |-> EmptyText, current |-> EmptyText, power |-> <<"1", "0", "0", "0">>,
      time |-> <<"5">>, tariff |-> DefaultTariff],
     [voltage |-> <<"0">>, current |-> <<"0">>, power |-> EmptyText,
      time |-> EmptyText, tariff |-> EmptyText],
     [voltage |-> <<"2", "5", "0">>, current |-> EmptyText, power |-> <<"5", "0", "0">>,
      time |-> EmptyText, tariff |-> EmptyText]}

Readings == [Fields -> Halves] \cup {getInputValues(t) : t \in ExampleTexts}

EngineInit ==
    /\ values \in Readings
    /\ results = [calculatedPower |-> Null, calculatedCurrent |-> Null,
                  calculatedVoltage |-> Null, energy |-> Null, cost |-> Null]
    /\ pc = "idle"
    /\ Unloaded
    /\ localStorage = [theme |-> NoTheme, recentCalculations |-> NoHistory]
    /\ now = 0
    /\ saves = 0
    /\ edits = 0
    /\ uncaught = FALSE
    /\ altFirst = FALSE
    /\ storageFails = "none"
    /\ Untimed
    /\ NoWorker

\* script.js:260 and 491: calculateAll(values) returns
Invoke ==
    /\ pc = "idle"
    /\ results' = calculateAll(values)
    /\ pc' = "done"
    /\ UNCHANGED <<values, pageVars, envVars, uncaught, hostVars, debounceVars,
                   workerVars>>

EngineNext == Invoke

SpecEngine == EngineInit /\ [][EngineNext]_vars

\* ----------------------------------------------------------- service worker
\* service-worker.js is held by src/unnamed/part_001 from its line 116 on.
\* part_001:130-132
CACHE_NAME == "electrical-calculator-v1.0.0"
STATIC_CACHE_NAME == "electrical-calculator-static-v1.0.0"
DYNAMIC_CACHE_NAME == "electrical-calculator-dynamic-v1.0.0"

\* part_001:135-142
STATIC_FILES ==
    <<"/", "/index.html", "/style.css", "/script.js", "/manifest.json",
      "https://cdn.jsdelivr.net/npm/chart.js">>

\* part_001:440-445: the list of the second install handler
PreloadFiles == <<"/", "/index.html", "/style.css", "/script.js">>

\* String.prototype.includes (part_001:282, 287, 292)
includes(text, part) ==
    \E i \in 1..(Len(text) - Len(part) + 1) : SubSeq(text, i, i + Len(part) - 1) = part

\* The origin the application is served from.
SelfOrigin == "https://calc.example"

\* new URL(request.url) (part_001:190): origin and pathname; href is the two
\* joined (no request of the model carries a query or a fragment).
Url(origin, pathname) == [origin |-> origin, pathname |-> pathname]
href(url) == url.origin \o url.pathname

\* The URL a manifest entry names: an absolute entry as it stands, a path
\* against the worker's origin (cache.addAll, part_001:152 and 440).
ManifestUrl(file) ==
    IF Len(file) >= 8 /\ SubSeq(file, 1, 8) = "https://"
    THEN file
    ELSE SelfOrigin \o file

ManifestHrefs == {ManifestUrl(STATIC_FILES[i]) : i \in 1..Len(STATIC_FILES)}
PreloadHrefs == {ManifestUrl(PreloadFiles[i]) : i \in 1..Len(PreloadFiles)}

\* part_001:281-283
isStaticFile(pathname) ==
    \E i \in 1..Len(STATIC_FILES) : includes(STATIC_FILES[i], pathname) \/ pathname = "/"

\* part_001:286-288
isDynamicContent(pathname) == includes(pathname, "/api/") \/ includes(pathname, "/data/")

\* part_001:291-293
isExternalResource(url) ==
    includes(url, "cdn.jsdelivr.net") \/ includes(url, "fonts.googleapis.com")

\* caches.open(name): the cache is created when it does not exist.
CacheOpen(storage, name) ==
    IF name \in DOMAIN storage THEN storage ELSE (name :> {}) @@ storage

\* cache.put / cache.addAll into the cache called name
CachePut(storage, name, hrefs) ==
    [CacheOpen(storage, name) EXCEPT ![name] = @ \cup hrefs]

\* caches.match(request): a hit in any cache
CachesMatch(storage, url) == \E name \in DOMAIN storage : url \in storage[name]

\* What a serve function answers: the kind of response ("cached", "network"
\* for whatever the network returned, "offline503" for the synthesized 503,
\* "rejected" when the promise rejects), where it looked and in which order,
\* and the CacheStorage it leaves.  net is what fetch(request) does when it
\* is called: "ok" (a response with ok set), "notOk" (any other response) or
\* "fail" (the promise rejects).
Answer(kind, consulted, storage) ==
    [kind |-> kind, consulted |-> consulted, storage |-> storage]

\* part_001:296-314
serveFromCache(url, net, storage) ==
    IF CachesMatch(storage, url) THEN Answer("cached", <<"cache">>, storage)
    ELSE IF net = "ok"
         THEN Answer("network", <<"cache", "network">>,
                     CachePut(storage, STATIC_CACHE_NAME, {url}))
    ELSE IF net = "notOk" THEN Answer("network", <<"cache", "network">>, storage)
    ELSE Answer("offline503", <<"cache", "network">>, storage)

serveFromNetworkFirst_NoCatch(url, net, storage) ==
    IF net = "ok"
    THEN Answer("network", <<"network">>, CachePut(storage, DYNAMIC_CACHE_NAME, {url}))
    ELSE IF net = "notOk" THEN Answer("network", <<"network">>, storage)
    ELSE Answer("rejected", <<"network">>, storage)

\* part_001:317-334
serveFromNetworkFirst(url, net, storage) ==
    IF net = "ok"
    THEN Answer("network", <<"network">>, CachePut(storage, DYNAMIC_CACHE_NAME, {url}))
    ELSE IF net = "notOk" THEN Answer("network", <<"network">>, storage)
    ELSE IF CachesMatch(storage, url)
         THEN Answer("cached", <<"network", "cache">>, storage)
         ELSE Answer("offline503", <<"network", "cache">>, storage)

\* part_001:337-355: only the dynamic cache is searched, and it is opened
\* (created) before anything else
cacheAndServe(url, net, storage) ==
    LET opened == CacheOpen(storage, DYNAMIC_CACHE_NAME)
    IN  IF url \in opened[DYNAMIC_CACHE_NAME] THEN Answer("cached", <<"cache">>, opened)
        ELSE IF net = "ok"
             THEN Answer("network", <<"cache", "network">>,
                         CachePut(opened, DYNAMIC_CACHE_NAME, {url}))
        ELSE IF net = "notOk" THEN Answer("network", <<"cache", "network">>, opened)
        ELSE Answer("offline503", <<"cache", "network">>, opened)

\* part_001:196-210: the strategy the fetch handler picks for a GET request
respondWith(url, net, storage) ==
    IF isStaticFile(url.pathname) THEN serveFromCache(href(url), net, storage)
    ELSE IF isDynamicContent(url.pathname) THEN serveFromNetworkFirst(href(url), net, storage)
    ELSE IF isExternalResource(href(url)) THEN cacheAndServe(href(url), net, storage)
    ELSE serveFromNetworkFirst(href(url), net, storage)

\* part_001:171-177: what the activate handler leaves of CacheStorage
activatePurge(storage) ==
    [name \in {n \in DOMAIN storage : ~(n # STATIC_CACHE_NAME /\ n # DYNAMIC_CACHE_NAME)}
        |-> storage[name]]

\* part_001:454-462: what the periodic cleanup leaves of CacheStorage
periodicPurge(storage) ==
    [name \in {n \in DOMAIN storage :
                 ~(n # CACHE_NAME /\ n # STATIC_CACHE_NAME /\ n # DYNAMIC_CACHE_NAME)}
        |-> storage[name]]

pageSide == <<engineVars, pageVars, envVars, uncaught, hostVars, debounceVars>>

\* part_001:365: new URL('/api/calculations', self.location.origin)
CalculationsHref == href(Url(SelfOrigin, "/api/calculations"))

\* What the network does with the requests of cache.addAll during install.
InstallNetworks == {"online", "cdnDown", "offline"}
Fetchable(network) ==
    IF network = "online" THEN ManifestHrefs
    ELSE IF network = "cdnDown" THEN {u \in ManifestHrefs : ~includes(u, "cdn.jsdelivr.net")}
    ELSE {}

\* part_001:145-162 and 437-448: the install event with its two handlers.
\* cache.addAll stores all its responses or, when one request fails, none.
\* The first handler's chain ends in a catch, so its promise always fulfils;
\* the second handler's promise rejects with addAll, and then the
\* installation fails.
Install(network) ==
    LET opened == CacheOpen(cacheStorage, STATIC_CACHE_NAME)
        first == IF ManifestHrefs \subseteq Fetchable(network) THEN ManifestHrefs ELSE {}
        secondOk == PreloadHrefs \subseteq Fetchable(network)
        second == IF secondOk THEN PreloadHrefs ELSE {}
    IN  /\ swState = "parsed"
        /\ cacheStorage' = CachePut(opened, STATIC_CACHE_NAME, first \cup second)
        /\ swState' = IF secondOk THEN "installed" ELSE "redundant"
        /\ UNCHANGED <<reply, syncVars, pageSide>>

\* part_001:165-185
Activate ==
    /\ swState = "installed"
    /\ cacheStorage' = activatePurge(cacheStorage)
    /\ swState' = "activated"
    /\ UNCHANGED <<reply, syncVars, pageSide>>

\* part_001:451-469: the callback of setInterval
PeriodicCleanup ==
    /\ swState \in {"installed", "activated"}
    /\ cacheStorage' = periodicPurge(cacheStorage)
    /\ UNCHANGED <<swState, reply, syncVars, pageSide>>

\* The requests the pages send: manifest members, paths that are no members,
\* an API path, and resources of other origins.
RequestUrls ==
    {Url(SelfOrigin, "/"), Url(SelfOrigin, "/index.html"),
     Url("https://cdn.jsdelivr.net", "/npm/chart.js"),
     Url(SelfOrigin, "/index"), Url(SelfOrigin, "/icon.png"),
     Url(SelfOrigin, "/api/calculations"),
     Url("https://fonts.googleapis.com", "/css2")}

\* part_001:188-211: a fetch event reaches the active worker.  For a request
\* that is not a GET the handler returns without respondWith.  A network
\* response that serveFromNetworkFirst puts under /api/calculations replaces
\* the payload stored under that key.
Fetch(url, method, net) ==
    /\ swState = "activated"
    /\ IF method # "GET"
       THEN /\ reply' = [href |-> href(url), consulted |-> <<>>, kind |-> "unhandled"]
            /\ UNCHANGED <<cacheStorage, stored>>
       ELSE LET answer == respondWith(url, net, cacheStorage)
            IN  /\ reply' = [href |-> href(url), consulted |-> answer.consulted,
                             kind |-> answer.kind]
                /\ cacheStorage' = answer.storage
                /\ stored' = IF href(url) = CalculationsHref /\ net = "ok"
                                 /\ answer.kind = "network"
                              THEN 0 ELSE stored
    /\ UNCHANGED <<swState, caching, sync, handed, pageSide>>

\* Caches an earlier version of the worker, or the unused name CACHE_NAME,
\* left behind in CacheStorage.
OldCacheNames == {CACHE_NAME, "electrical-calculator-static-v0.9.0"}

InitWorker ==
    /\ IdleEngine
    /\ Unloaded
    /\ localStorage = [theme |-> NoTheme, recentCalculations |-> NoHistory]
    /\ now = 0
    /\ saves = 0
    /\ edits = 0
    /\ uncaught = FALSE
    /\ altFirst = FALSE
    /\ storageFails = "none"
    /\ Untimed
    /\ swState = "parsed"
    /\ \E names \in SUBSET OldCacheNames :
          cacheStorage = [name \in names |-> {SelfOrigin \o "/index.html"}]
    /\ reply = NoReply
    /\ NoSync

NextWorker ==
    \/ \E network \in InstallNetworks : Install(network)
    \/ Activate
    \/ PeriodicCleanup
    \/ \E url \in RequestUrls, method \in {"GET", "POST"}, net \in {"ok", "notOk", "fail"} :
          Fetch(url, method, net)

SpecWorker == InitWorker /\ [][NextWorker]_vars

\* ------------------------------------------- calculation cache and sync
\* How many payloads the pages hand over, how many sync events are
\* dispatched.
MaxPayloads == 3
MaxSyncs == 2

\* part_001:266-276, 358-361: a CACHE_CALCULATION message arrives with the
\* payload numbered k == handed + 1.  The handler calls cacheCalculation
\* without awaiting it; the function runs up to its await of caches.open,
\* which creates the dynamic cache when it is missing.
CacheCalculationMessage ==
    /\ swState = "activated"
    /\ handed < MaxPayloads
    /\ handed' = handed + 1
    /\ caching' = caching \cup {handed + 1}
    /\ cacheStorage' = CacheOpen(cacheStorage, DYNAMIC_CACHE_NAME)
    /\ UNCHANGED <<swState, reply, stored, sync, pageSide>>

\* part_001:365-366: cacheCalculation's cache.put of payload k under
\* /api/calculations, replacing whatever the key held
CacheCalculationPut(k) ==
    /\ k \in caching
    /\ caching' = caching \ {k}
    /\ cacheStorage' = CachePut(cacheStorage, DYNAMIC_CACHE_NAME, {CalculationsHref})
    /\ stored' = k
    /\ UNCHANGED <<swState, reply, sync, handed, pageSide>>

\* part_001:214-220, 375-377: a sync event tagged 'calculation-sync' starts
\* syncCalculations, which runs up to its await of caches.open
SyncEvent ==
    /\ swState = "activated"
    /\ sync.pc = "idle"
    /\ sync.runs < MaxSyncs
    /\ sync' = [SyncIdle EXCEPT !.pc = "open", !.runs = sync.runs + 1]
    /\ cacheStorage' = CacheOpen(cacheStorage, DYNAMIC_CACHE_NAME)
    /\ UNCHANGED <<swState, reply, stored, caching, handed, pageSide>>

\* part_001:378-381: cache.keys() and the filter of the loop: the keys of
\* the dynamic cache whose URL includes '/api/calculations'
SyncKeys ==
    LET requests == {u \in CacheOpen(cacheStorage, DYNAMIC_CACHE_NAME)[DYNAMIC_CACHE_NAME] :
                        includes(u, "/api/calculations")}
    IN  /\ sync.pc = "open"
        /\ sync' = [sync EXCEPT !.requests = requests,
                                !.pc = IF requests = {} THEN "idle" ELSE "match"]
        /\ UNCHANGED <<swState, cacheStorage, reply, stored, caching, handed, pageSide>>

\* part_001:382: cache.match(request) resolves with what the key holds now,
\* or with undefined when the key is gone
SyncMatch ==
    /\ sync.pc = "match"
    /\ \E request \in sync.requests :
          LET held == /\ DYNAMIC_CACHE_NAME \in DOMAIN cacheStorage
                      /\ request \in cacheStorage[DYNAMIC_CACHE_NAME]
          IN  sync' = [sync EXCEPT !.pc = "json",
                          !.requests = {request} \cup (sync.requests \ {request}),
                          !.response = IF held THEN [defined |-> TRUE, body |-> stored]
                                       ELSE NoResponse]
    /\ UNCHANGED <<swState, cacheStorage, reply, stored, caching, handed, pageSide>>

\* part_001:383-386: response.json() and the log of the calculation.  On
\* undefined the call throws, on a body that is not JSON it rejects: the
\* catch of part_001:394 ends the run.  A body that is no payload (a network
\* response stored by the fetch handler) may or may not be JSON.
SyncJson ==
    /\ sync.pc = "json"
    /\ \E parses \in BOOLEAN :
          /\ sync.response.defined /\ sync.response.body # 0 => parses
          /\ ~sync.response.defined => ~parses
          /\ sync' = IF parses
                     THEN [sync EXCEPT !.pc = "delete",
                                       !.calculation = sync.response.body]
                     ELSE [sync EXCEPT !.pc = "idle", !.requests = {},
                                       !.response = NoResponse]
    /\ UNCHANGED <<swState, cacheStorage, reply, stored, caching, handed, pageSide>>

\* part_001:389: cache.delete(request) removes whatever the key holds now;
\* the loop goes on with the next request or the run ends
SyncDelete ==
    /\ sync.pc = "delete"
    /\ \E request \in sync.requests :
          LET rest == sync.requests \ {request}
          IN  /\ cacheStorage' =
                     [CacheOpen(cacheStorage, DYNAMIC_CACHE_NAME) EXCEPT
                         ![DYNAMIC_CACHE_NAME] = @ \ {request}]
              /\ stored' = IF request = CalculationsHref THEN 0 ELSE stored
              /\ sync' = [sync EXCEPT !.requests = rest,
                                      !.pc = IF rest = {} THEN "idle" ELSE "match"]
    /\ UNCHANGED <<swState, reply, caching, handed, pageSide>>

\* The active worker of an installation that went through online, with
\* nothing but its own caches in CacheStorage.
InitSync ==
    /\ IdleEngine
    /\ Unloaded
    /\ localStorage = [theme |-> NoTheme, recentCalculations |-> NoHistory]
    /\ now = 0
    /\ saves = 0
    /\ edits = 0
    /\ uncaught = FALSE
    /\ altFirst = FALSE
    /\ storageFails = "none"
    /\ Untimed
    /\ swState = "activated"
    /\ cacheStorage = [name \in {STATIC_CACHE_NAME} |-> ManifestHrefs \cup PreloadHrefs]
    /\ reply = NoReply
    /\ NoSync

\* The message handler, the sync handler and the steps of their two async
\* functions, which the event loop runs in any order between awaits.
NextSync ==
    \/ CacheCalculationMessage
    \/ \E k \in 1..MaxPayloads : CacheCalculationPut(k)
    \/ SyncEvent
    \/ SyncKeys
    \/ SyncMatch
    \/ SyncJson
    \/ SyncDelete

SpecSync == InitSync /\ [][NextSync]_vars

\* ------------------------------------------------------------------ claims
\* The Reading and Derivation of a finished calculateAll invocation.
Done == pc = "done"
PowerAndCurrentGiven == Gt0(values.voltage) /\ Gt0(values.current)
Determined(x) == x.k = "num"

\* C1: with voltage > 0 and current > 0 the derived power is voltage * current
\* whatever the power field holds; otherwise it is the power field when that
\* is > 0, and null when it is not.
C1_PowerRule ==
    Done =>
        results.calculatedPower =
            IF Gt0(values.voltage) /\ Gt0(values.current)
            THEN Num(values.voltage.n * values.current.n, values.voltage.d * values.current.d)
            ELSE IF Gt0(values.power) THEN values.power ELSE Null

\* A Reading supplies all three and its power field contradicts V * I.
C1_Witness ==
    /\ Done
    /\ Gt0(values.voltage) /\ Gt0(values.current) /\ Gt0(values.power)
    /\ values.power # Mul(values.voltage, values.current)
    /\ results.calculatedPower = Mul(values.voltage, values.current)

\* C2: with power > 0 and voltage > 0 the derived current is the raw power
\* field divided by voltage; otherwise it is the current field when that is
\* > 0 (voltage=230, current=2 gives 2), and null when it is not.
C2_CurrentRule ==
    Done =>
        results.calculatedCurrent =
            IF Gt0(values.power) /\ Gt0(values.voltage)
            THEN Num(values.power.n * values.voltage.d, values.power.d * values.voltage.n)
            ELSE IF Gt0(values.current) THEN values.current ELSE Null

\* Example 1 of the specification: voltage=230, current=2 and no power.
C2_Witness ==
    /\ Done
    /\ values.voltage = Num(230, 1) /\ values.current = Num(2, 1)
    /\ values.power = Zero
    /\ results.calculatedCurrent = Num(2, 1)

\* C3: with power > 0 and current > 0 the derived voltage is power / current;
\* otherwise it is the voltage field when that is > 0 (power=500, voltage=250
\* gives 250), and null when it is not.
C3_VoltageRule ==
    Done =>
        results.calculatedVoltage =
            IF Gt0(values.power) /\ Gt0(values.current)
            THEN Num(values.power.n * values.current.d, values.power.d * values.current.n)
            ELSE IF Gt0(values.voltage) THEN values.voltage ELSE Null

\* Example 5 of the specification: power=500, voltage=250 and no current.
C3_Witness ==
    /\ Done
    /\ values.power = Num(500, 1) /\ values.voltage = Num(250, 1)
    /\ values.current = Zero
    /\ results.calculatedVoltage = Num(250, 1)
    /\ results.calculatedCurrent = Num(2, 1)

\* C4: with effective power the derived power when that is determined and the
\* raw power field otherwise, energy is effective power * time / 1000 when
\* both are > 0 and null in every other case; with voltage, current and power
\* all supplied it rests on voltage * current.
C4_EffectivePower ==
    IF Determined(results.calculatedPower) THEN results.calculatedPower ELSE values.power

C4_EnergyRule ==
    Done =>
        /\ results.energy =
              IF Gt0(C4_EffectivePower) /\ Gt0(values.time)
              THEN Num(C4_EffectivePower.n * values.time.n,
                       C4_EffectivePower.d * values.time.d * 1000)
              ELSE Null
        /\ (PowerAndCurrentGiven /\ Gt0(values.time)) =>
              results.energy = Div(Mul(Mul(values.voltage, values.current), values.time),
                                   Num(1000, 1))

\* All of voltage, current, power and time supplied, the power field
\* contradicting V * I.
C4_Witness ==
    /\ Done
    /\ PowerAndCurrentGiven /\ Gt0(values.power) /\ Gt0(values.time)
    /\ values.power # Mul(values.voltage, values.current)
    /\ Determined(results.energy)
    /\ results.energy # Div(Mul(values.power, values.time), Num(1000, 1))

\* C5: cost is energy * tariff exactly when energy is determined and
\* tariff > 0, and null whenever energy is null or tariff <= 0.
C5_CostRule ==
    Done =>
        results.cost =
            IF Determined(results.energy) /\ Gt0(values.tariff)
            THEN Num(results.energy.n * values.tariff.n, results.energy.d * values.tariff.d)
            ELSE Null

\* Example 3 of the specification: power=1000, time=5, tariff=8.5.
C5_Witness ==
    /\ Done
    /\ values.power = Num(1000, 1) /\ values.time = Num(5, 1)
    /\ values.tariff = Num(17, 2)
    /\ results.energy = Num(5, 1)
    /\ results.cost = Num(85, 2)

\* C6: whenever power, current and voltage are all three determined, the
\* derived power is the derived voltage times the derived current.
C6_MutuallyConsistent ==
    (/\ Done
     /\ Determined(results.calculatedPower)
     /\ Determined(results.calculatedCurrent)
     /\ Determined(results.calculatedVoltage))
    => results.calculatedPower = Mul(results.calculatedVoltage, results.calculatedCurrent)

\* The persisted log, read back the way initializeApp reads it.
PersistedLog ==
    IF localStorage.recentCalculations.present
    THEN JSONparse(localStorage.recentCalculations.value)
    ELSE <<>>

\* C8: in every reachable state the in-memory log and its persisted copy
\* hold at most 10 entries.
C8_AtMostTen ==
    /\ Len(recentCalculations) <= MaxRecent
    /\ Len(PersistedLog) <= MaxRecent

\* A calculation was recorded on a log of ten: the oldest is gone, ten remain.
C8_Witness ==
    /\ started
    /\ saves >= 1
    /\ Len(recentCalculations) = MaxRecent
    /\ Len(PersistedLog) = MaxRecent
    /\ recentCalculations[1].timestamp >= 0
    /\ recentCalculations[MaxRecent].timestamp = -(MaxRecent - 1)

\* C9: a saveCalculation on a log of 10 removes the last (earliest recorded)
\* entry and keeps the 9 others unchanged, in their order, behind the new one.
C9_FifoEviction ==
    [][(Len(recentCalculations) = MaxRecent /\ saves' = saves + 1) =>
          /\ Len(recentCalculations') = MaxRecent
          /\ recentCalculations'[1].timestamp = now
          /\ \A i \in 1..(MaxRecent - 1) : recentCalculations'[i + 1] = recentCalculations[i]
      ]_vars

\* The stored log of ten after one more calculation: its nine newest entries
\* follow the new one.
C9_Witness ==
    /\ started
    /\ saves >= 1
    /\ Len(recentCalculations) = MaxRecent
    /\ recentCalculations[1].timestamp >= 0
    /\ \A i \in 2..MaxRecent : recentCalculations[i] = PriorLog(MaxRecent)[i - 1]

\* C10: after every saveCalculation the new entry {timestamp, inputs,
\* results} heads the log, the entries kept follow it in their former order,
\* and the value persisted under 'recentCalculations' parses to the log.
C10_NewestFirstAndPersisted ==
    [][(saves' = saves + 1) =>
          /\ recentCalculations'[1] =
                [timestamp |-> now,
                 inputs |-> getInputValues(fields'),
                 results |-> calculateAll(getInputValues(fields'))]
          /\ Tail(recentCalculations') =
                SubSeq(recentCalculations, 1, Len(recentCalculations') - 1)
          /\ localStorage'.recentCalculations.present
          /\ JSONparse(localStorage'.recentCalculations.value) = recentCalculations'
      ]_vars

\* Two calculations recorded on a first visit: both are in the log, newest
\* first, and in storage.
C10_Witness ==
    /\ started
    /\ saves = 2
    /\ Len(recentCalculations) = 2
    /\ recentCalculations[1].timestamp > recentCalculations[2].timestamp
    /\ PersistedLog = recentCalculations

\* A step in which performCalculations runs: a debounce timer fires, the
\* keyboard shortcut is used, or a unit button is clicked on a numeric field.
PerformRuns ==
    \/ KeyboardCalculate
    \/ \E f \in Fields : TimerFires(f)
    \/ \E f \in UnitFields :
          parseFloat(fields[f]).k # "NaN" /\ UnitClick(f, BaseUnit[f])

\* How many of the five fields of the texts flds read as a number above zero.
PositiveCount(flds) ==
    LET vals == getInputValues(flds)
    IN  Cardinality({f \in Fields : Gt0(vals[f])})

\* C11: when performCalculations runs on a Reading with fewer than two
\* strictly positive fields, the five result slots are cleared, no entry is
\* appended, and the log in memory and the persisted log stay as they were.
\* (Written as "outcome, or no such run".)
C11_UnusableClearsAndKeepsLog ==
    [][\/ /\ resultText' = clearResults
          /\ saves' = saves
          /\ recentCalculations' = recentCalculations
          /\ localStorage' = localStorage
       \/ ~(PositiveCount(fields') < 2 /\ PerformRuns)
      ]_vars

\* A negative voltage was typed beside the default tariff and the timer of
\* the field has fired: the slots are cleared and the stored log of ten is
\* as earlier sessions left it.
C11_Witness ==
    /\ started
    /\ edits = 1
    /\ fields.voltage = <<"-", "1">>
    /\ ~timeout.voltage
    /\ PositiveCount(fields) = 1
    /\ resultText = clearResults
    /\ saves = 0
    /\ recentCalculations = PriorLog(MaxRecent)
    /\ PersistedLog = PriorLog(MaxRecent)

\* C12: every run of performCalculations on a Reading with at least two
\* strictly positive fields appends exactly one entry, which holds that
\* Reading and the Derivation calculateAll returns for it.
\* (Written as "outcome, or no such run".)
C12_UsableAppendsOne ==
    [][\/ /\ saves' = saves + 1
          /\ Len(recentCalculations') =
                IF Len(recentCalculations) < MaxRecent
                THEN Len(recentCalculations) + 1 ELSE MaxRecent
          /\ recentCalculations'[1].inputs = getInputValues(fields')
          /\ recentCalculations'[1].results = calculateAll(getInputValues(fields'))
          /\ \A i \in 2..Len(recentCalculations') :
                recentCalculations'[i] = recentCalculations[i - 1]
       \/ ~(PositiveCount(fields') >= 2 /\ PerformRuns)
      ]_vars

\* On a first visit a power was typed beside the default tariff and the
\* timer has fired: the log holds the one entry of that run, with the power
\* it derived.
C12_Witness ==
    /\ started
    /\ edits = 1
    /\ fields.power = <<"2">>
    /\ ~timeout.power
    /\ saves = 1
    /\ Len(recentCalculations) = 1
    /\ recentCalculations[1].inputs = getInputValues(fields)
    /\ recentCalculations[1].results = calculateAll(getInputValues(fields))
    /\ recentCalculations[1].results.calculatedPower = Num(2, 1)

\* C20: every entry performCalculations appends has at least one of its
\* five derived quantities determined.
C20_EntryDeterminesSomething ==
    [][(saves' = saves + 1) =>
          \E q \in DOMAIN recentCalculations'[1].results :
              Determined(recentCalculations'[1].results[q])
      ]_vars

\* C19: no exception propagates out of initializeApp or performCalculations,
\* whether the history key is absent, holds unparsable text, or the storage
\* write of saveCalculation fails.
C19_NoExceptionPropagates == ~uncaught

\* C14: on a field holding a number, a click on the alternate-unit button
\* multiplies the value by the factor of the field (1000, 1000, 1000, 60), and
\* a click on the base-unit button after that divides it by the factor again.
C14_ToggleRescales ==
    [][\A f \in UnitFields :
          LET value == parseFloat(fields[f])
              factor == Num(UnitFactor[f], 1)
          IN  value.k = "num" =>
                /\ (UnitClick(f, AltUnit[f]) /\ originalUnit[f] # AltUnit[f]) =>
                       parseFloat(fields'[f]) = Mul(value, factor)
                /\ (UnitClick(f, BaseUnit[f]) /\ originalUnit[f] = AltUnit[f]) =>
                       parseFloat(fields'[f]) = Div(value, factor)
      ]_vars

\* C13: for any burst of input events, each less than 300 ms after the one
\* before and on whichever fields, the timers run performCalculations at most
\* once, and only when 300 ms have passed since the latest input event.
C13_OncePerBurst ==
    /\ burstRuns <= 1
    /\ quietAtRun >= DebounceWait

\* The latest fetch event was a GET request the worker answered.
Answered == reply.kind \notin {"none", "unhandled"}

\* C15: a GET request is answered cache-first exactly when the requested
\* resource is a member of the STATIC_FILES manifest; every other GET request
\* is answered network-first, the cache being consulted only after the network.
C15_CacheFirstIffManifest ==
    Answered =>
        /\ (reply.consulted[1] = "cache") <=> (reply.href \in ManifestHrefs)
        /\ reply.href \notin ManifestHrefs => reply.consulted[1] = "network"

\* The cache names of the current version (part_001:130-132).
CurrentCacheNames == {CACHE_NAME, STATIC_CACHE_NAME, DYNAMIC_CACHE_NAME}

\* C16: after the activate handler and after every periodic cleanup no cache
\* is left whose name is not a cache name of the current version, neither
\* purge deletes the current static or dynamic cache, and on the caches
\* present the two purges pick the same ones as stale.
C16_PurgesAgree ==
    [][(Activate \/ PeriodicCleanup) =>
          /\ DOMAIN cacheStorage' \subseteq CurrentCacheNames
          /\ \A name \in {STATIC_CACHE_NAME, DYNAMIC_CACHE_NAME} \cap DOMAIN cacheStorage :
                name \in DOMAIN cacheStorage' /\ cacheStorage'[name] = cacheStorage[name]
          /\ activatePurge(cacheStorage) = periodicPurge(cacheStorage)
      ]_vars

\* C17: once the install step has completed successfully, every resource of
\* the STATIC_FILES manifest is in the static cache.
C17_InstalledMeansManifestCached ==
    swState \in {"installed", "activated"} =>
        /\ STATIC_CACHE_NAME \in DOMAIN cacheStorage
        /\ ManifestHrefs \subseteq cacheStorage[STATIC_CACHE_NAME]

\* C18: a GET request that meets a failing network is answered with the
\* cached response when one exists and with the synthesized 503 otherwise;
\* whatever the network does, respondWith is given a response, never a
\* rejection.
C18_NetworkFailureFallsBack ==
    [][\A url \in RequestUrls :
          /\ Fetch(url, "GET", "fail") =>
                reply'.kind = IF CachesMatch(cacheStorage, href(url))
                              THEN "cached" ELSE "offline503"
          /\ (\E net \in {"ok", "notOk", "fail"} : Fetch(url, "GET", net)) =>
                reply'.kind \in {"cached", "network", "offline503"}
      ]_vars

\* The network failed on a request served network-first and the response
\* cached by an earlier fetch was returned.
C18_Witness ==
    /\ swState = "activated"
    /\ reply.kind = "cached"
    /\ reply.consulted = <<"network", "cache">>
    /\ CachesMatch(cacheStorage, reply.href)

\* ------------------------------------------------------------------- theme
\* C21: on a host whose storage works and whose 'theme' key holds 'light',
\* 'dark' or nothing, the theme in memory is always 'light' or 'dark'; once
\* the page has started it equals the value stored under 'theme'; every
\* toggleTheme switches to the other value; and neither startup's setTheme
\* nor toggleTheme changes what is stored under 'recentCalculations'.
C21_ThemeAgreesWithStorage ==
    [][/\ currentTheme' \in {"light", "dark"}
       /\ started' => localStorage'.theme = Item(currentTheme')
       /\ toggleTheme => /\ currentTheme' # currentTheme
                         /\ localStorage'.recentCalculations =
                                localStorage.recentCalculations
       /\ initializeApp => localStorage'.recentCalculations =
                               localStorage.recentCalculations]_vars

\* The theme was switched to dark in a session that has also recorded a
\* calculation next to a stored history.
C21_Witness ==
    /\ started
    /\ currentTheme = "dark"
    /\ localStorage.theme = Item("dark")
    /\ saves > 0
    /\ Len(recentCalculations) = MaxRecent
    /\ localStorage.recentCalculations = Item(JSONstringify(recentCalculations))

\* --------------------------------------------------- display and fields
\* script.js:588-595: some debounce closure holds a timer that has not fired
TimerPending == \E f \in Fields : timeout[f]

\* script.js:252-264: what performCalculations would put into the five
\* result slots for the input texts flds
Shown(flds) ==
    LET vals == getInputValues(flds)
    IN  IF hasValidInputs(vals) THEN displayResults(calculateAll(vals))
        ELSE clearResults

\* C22: whenever the started page has no debounce timer pending, the five
\* result slots show calculateAll of the Reading in the input fields if that
\* Reading is usable, and '--' in every slot otherwise - after input edits,
\* timer firings, unit toggles (in either markup order of the unit buttons),
\* keyboard recomputations, resets and reloads.
C22_DisplayAgreesWithFields ==
    (started /\ ~TimerPending) => resultText = Shown(fields)

\* A typed power was rescaled to kW by a unit toggle and, with no timer
\* pending, the slots show a determined power for the rescaled field.
C22_Witness ==
    /\ started
    /\ ~TimerPending
    /\ edits > 0
    /\ originalUnit.power = "kW"
    /\ resultText.powerResult # Dashes
    /\ resultText = Shown(fields)

\* ------------------------------------------------------- reset and export
\* script.js:600-604: the five input texts as resetAll leaves them
ResetFields == [f \in Fields |-> IF f = "tariff" THEN DefaultTariff ELSE EmptyText]

\* The history log in memory and its stored copy are what they were.
LogKept ==
    /\ recentCalculations' = recentCalculations
    /\ localStorage'.recentCalculations = localStorage.recentCalculations

\* C23: resetAll and exportToCSV leave the history log and its stored copy
\* unchanged; and while the input fields stay as resetAll left them (only the
\* tariff positive), no step of the started page - a debounce timer armed
\* before the reset that fires after it, a keyboard recomputation, a unit
\* toggle - changes the log or its stored copy.
C23_ResetKeepsLog ==
    [][\/ LogKept
       \/ ~(\/ resetAll
            \/ exportToCSV
            \/ started /\ fields = ResetFields /\ fields' = ResetFields)]_vars

\* resetAll ran after a recorded calculation while the debounce timer of the
\* edited field was still pending: only resetAll empties an edited field and
\* leaves its timer armed.
C23_Witness ==
    /\ started
    /\ fields = ResetFields
    /\ TimerPending
    /\ saves > 0
    /\ Len(recentCalculations) > 0
    /\ localStorage.recentCalculations = Item(JSONstringify(recentCalculations))

\* ------------------------------------------------------ payloads and sync
\* C24: under any interleaving of cacheCalculation and syncCalculations, a
\* payload leaves the dynamic cache only in a step of a sync run that has
\* read that same payload: whenever the stored payload is removed, it is the
\* calculation the running sync read.
C24_DeletedOnlyAfterRead ==
    [][(stored # 0 /\ stored' = 0 /\ SyncDelete) => sync.calculation = stored]_vars

====
